---- MODULE Spec2Model ----
(***************************************************************************)
(* Model of src/main.js: a browser client for an OpenAI-compatible         *)
(* provider.  The state is the DOM the script reads and writes (the        *)
(* prompt, key and system-prompt inputs, the model <select>, the children  *)
(* of #messages), the alerts raised, the millisecond clock behind          *)
(* Date.now(), and the position of every running invocation of the two     *)
(* async functions sendChat and fetchModels.                               *)
(*                                                                         *)
(* Strings are sequences of tokens (a token is a word or a character), so  *)
(* that trim, the regular-expression tests, newline substitution, String() *)
(* and JSON.stringify are computed rather than assumed.  JavaScript values *)
(* are records with one layout, [t, s, n, items, fields].                  *)
(*                                                                         *)
(* The DOM elements the script requires (lines 6-14) are present; the      *)
(* optional #apiKey input is present and starts empty, which getApiKey     *)
(* treats exactly like an absent one.  A continuation that runs between    *)
(* `await fetch` and `await res.json()/res.text()` touches no shared state,*)
(* so the two suspension points of one call are one step of the model.     *)
(***************************************************************************)
EXTENDS Integers, Sequences, FiniteSets, TLC

(***************************************************************************)
(* Bounds of the model.                                                    *)
(***************************************************************************)
MaxSends == 2
MaxRefresh == 2
MaxClock == 1
MaxAlerts == 1

(***************************************************************************)
(* JavaScript values.                                                      *)
(***************************************************************************)
JV(t, s, n, items, fields) ==
    [t |-> t, s |-> s, n |-> n, items |-> items, fields |-> fields]
Undefined == JV("undefined", <<>>, 0, <<>>, <<>>)
JNull == JV("null", <<>>, 0, <<>>, <<>>)
JStr(s) == JV("str", s, 0, <<>>, <<>>)
JNum(n) == JV("num", <<>>, n, <<>>, <<>>)
JArr(items) == JV("arr", <<>>, 0, items, <<>>)
JObj(fields) == JV("obj", <<>>, 0, <<>>, fields)
KV(k, v) == [k |-> k, v |-> v]

\* Truthiness, as `if (x)`, `x && y`, `x || y` and `!x` read it.
Truthy(v) ==
    CASE v.t \in {"undefined", "null"} -> FALSE
      [] v.t = "str" -> v.s # <<>>
      [] v.t = "num" -> v.n # 0
      [] OTHER -> TRUE

\* Whether reading a property of v raises a TypeError.
Nullish(v) == v.t \in {"undefined", "null"}

\* v.k for a non-nullish v: an own field of an object, undefined otherwise
\* (none of the keys the script reads is a property of a string, a number
\* or an array).
Get(v, k) ==
    IF v.t = "obj" /\ \E i \in 1..Len(v.fields) : v.fields[i].k = k
    THEN LET i == CHOOSE i \in 1..Len(v.fields) : v.fields[i].k = k
         IN v.fields[i].v
    ELSE Undefined

IsArray(v) == v.t = "arr"

\* v[0] of an array.
First(v) == IF v.t = "arr" /\ Len(v.items) > 0 THEN v.items[1] ELSE Undefined

\* a || b
JsOr(a, b) == IF Truthy(a) THEN a ELSE b

RECURSIVE Flatten(_)
Flatten(ss) == IF ss = <<>> THEN <<>> ELSE Head(ss) \o Flatten(Tail(ss))

RECURSIVE Join(_, _)
Join(ss, sep) ==
    IF ss = <<>> THEN <<>>
    ELSE IF Len(ss) = 1 THEN ss[1]
    ELSE ss[1] \o sep \o Join(Tail(ss), sep)

\* String(v), also the coercion of `${v}`, of textContent = v and of
\* RegExp.prototype.test(v).
RECURSIVE ToStr(_)
ToStr(v) ==
    CASE v.t = "str" -> v.s
      [] v.t = "num" -> <<ToString(v.n)>>
      [] v.t = "null" -> <<"null">>
      [] v.t = "undefined" -> <<"undefined">>
      [] v.t = "arr" ->
            Join([i \in 1..Len(v.items) |->
                    IF Nullish(v.items[i]) THEN <<>> ELSE ToStr(v.items[i])],
                 <<",">>)
      [] OTHER -> <<"[object Object]">>

\* The characters JSON.stringify escapes inside a string.
EscapeTok(c) ==
    CASE c = "\n" -> "\\n"
      [] c = "\"" -> "\\\""
      [] OTHER -> c

Quote(s) == <<"\"">> \o [i \in 1..Len(s) |-> EscapeTok(s[i])] \o <<"\"">>

\* JSON.stringify(v)
RECURSIVE Stringify(_)
Stringify(v) ==
    CASE v.t = "str" -> Quote(v.s)
      [] v.t = "num" -> <<ToString(v.n)>>
      [] v.t = "arr" ->
            <<"[">> \o
            Join([i \in 1..Len(v.items) |-> Stringify(v.items[i])], <<",">>)
            \o <<"]">>
      [] v.t = "obj" ->
            <<"{">> \o
            Join([i \in 1..Len(v.fields) |->
                    Quote(<<v.fields[i].k>>) \o <<":">>
                    \o Stringify(v.fields[i].v)],
                 <<",">>)
            \o <<"}">>
      [] OTHER -> <<"null">>

Indent(d) == [i \in 1..(2 * d) |-> " "]

\* JSON.stringify(v, null, 2) at nesting depth d.
RECURSIVE Pretty(_, _)
Pretty(v, d) ==
    CASE v.t = "arr" /\ v.items # <<>> ->
            <<"[", "\n">> \o
            Join([i \in 1..Len(v.items) |->
                    Indent(d + 1) \o Pretty(v.items[i], d + 1)],
                 <<",", "\n">>)
            \o <<"\n">> \o Indent(d) \o <<"]">>
      [] v.t = "obj" /\ v.fields # <<>> ->
            <<"{", "\n">> \o
            Join([i \in 1..Len(v.fields) |->
                    Indent(d + 1) \o Quote(<<v.fields[i].k>>) \o <<":", " ">>
                    \o Pretty(v.fields[i].v, d + 1)],
                 <<",", "\n">>)
            \o <<"\n">> \o Indent(d) \o <<"}">>
      [] OTHER -> Stringify(v)

(***************************************************************************)
(* Strings.                                                                *)
(***************************************************************************)
IsSpace(c) == c \in {" ", "\n"}

RECURSIVE TrimLeft(_)
TrimLeft(s) ==
    IF s # <<>> /\ IsSpace(Head(s)) THEN TrimLeft(Tail(s)) ELSE s

RECURSIVE TrimRight(_)
TrimRight(s) ==
    IF s # <<>> /\ IsSpace(s[Len(s)])
    THEN TrimRight(SubSeq(s, 1, Len(s) - 1)) ELSE s

\* String.prototype.trim
Trim(s) == TrimRight(TrimLeft(s))

\* The /i flag: a token and its lower-case form.
LowerTok(c) ==
    CASE c \in {"SCRIPT", "Script"} -> "script"
      [] c \in {"CORS", "Cors"} -> "cors"
      [] c \in {"Network", "NETWORK"} -> "network"
      [] c = "Failed to fetch" -> "failed to fetch"
      [] OTHER -> c

\* /<\/?script/i.test(s)
HasScriptTag(s) ==
    \E i \in 1..Len(s) :
        /\ s[i] = "<"
        /\ \/ i + 1 <= Len(s) /\ LowerTok(s[i + 1]) = "script"
           \/ i + 2 <= Len(s) /\ s[i + 1] = "/" /\ LowerTok(s[i + 2]) = "script"

\* /CORS|Network|Failed to fetch/i.test(s)
HasNetMarker(s) ==
    \E i \in 1..Len(s) : LowerTok(s[i]) \in {"cors", "network", "failed to fetch"}

\* s.replace(/\n/g, '<br>')
NlToBr(s) ==
    Flatten([i \in 1..Len(s) |->
                IF s[i] = "\n" THEN <<"<", "br", ">">> ELSE <<s[i]>>])

\* Whether s, parsed as HTML, opens or closes an element: a "<" followed by
\* a tag name or by "/".
HasTag(s) ==
    \E i \in 1..Len(s) :
        s[i] = "<" /\ i + 1 <= Len(s) /\ ~IsSpace(s[i + 1]) /\ s[i + 1] # "<"

(***************************************************************************)
(* getApiKey (lines 56-62).  wk is window.OPENAI_KEY (undefined or a       *)
(* string), ak the value of input#apiKey.                                  *)
(***************************************************************************)
\* the resolution below with the input asked before window.OPENAI_KEY
GetApiKeyInputFirst(wk, ak) ==
    IF ak # <<>> /\ Trim(ak) # <<>> THEN JStr(Trim(ak))
    ELSE IF Truthy(wk) /\ Trim(wk.s) # <<>> THEN JStr(Trim(wk.s))
    ELSE JNull

\* lines 56-62
GetApiKey(wk, ak) ==
    IF Truthy(wk) /\ Trim(wk.s) # <<>> THEN JStr(Trim(wk.s))
    ELSE IF ak # <<>> /\ Trim(ak) # <<>> THEN JStr(Trim(ak))
    ELSE JNull

(***************************************************************************)
(* The result of a block of code that may raise: the value, or the message *)
(* of the error raised.                                                    *)
(***************************************************************************)
Ok(v) == [threw |-> FALSE, val |-> v, msg |-> <<>>]
Raise(msg) == [threw |-> TRUE, val |-> Undefined, msg |-> msg]
TypeErrorMsg == <<"TypeError">>
SyntaxErrorMsg == <<"SyntaxError">>

(***************************************************************************)
(* Extraction of the assistant text from the chat response (lines 178-189).*)
(***************************************************************************)
\* line 181: (c.message && c.message.content) || c.text
\*           || (c.delta && c.delta.content) || null, for a truthy c
ChoiceText(c) ==
    LET m == Get(c, "message")
        d == Get(c, "delta")
        a == IF Truthy(m) THEN Get(m, "content") ELSE m
        b == IF Truthy(d) THEN Get(d, "content") ELSE d
    IN JsOr(JsOr(JsOr(a, Get(c, "text")), b), JNull)

\* line 184, for a truthy j.output
OutputText(o) ==
    IF o.t = "str" THEN Ok(o)
    ELSE IF IsArray(o)
    THEN IF \E i \in 1..Len(o.items) : Nullish(o.items[i])
         THEN Raise(TypeErrorMsg)
         ELSE Ok(JStr(Join([i \in 1..Len(o.items) |->
                              ToStr(JsOr(Get(o.items[i], "content"),
                                         JStr(Stringify(o.items[i]))))],
                           <<"\n">>)))
    ELSE Ok(JStr(Stringify(o)))

ExtractText(j) ==
    IF Nullish(j) THEN Raise(TypeErrorMsg)
    ELSE IF Truthy(Get(j, "choices")) /\ IsArray(Get(j, "choices"))
            /\ Truthy(First(Get(j, "choices")))
    THEN Ok(ChoiceText(First(Get(j, "choices"))))
    ELSE IF Truthy(Get(j, "output")) THEN OutputText(Get(j, "output"))
    ELSE IF Truthy(Get(j, "result")) THEN Ok(Get(j, "result"))
    ELSE Ok(JStr(Pretty(j, 0)))

(***************************************************************************)
(* Normalisation of the models response (lines 94-107).                    *)
(***************************************************************************)
MaxKeys == 20

\* line 95
ArrayId(m) ==
    JsOr(JsOr(JsOr(Get(m, "id"), Get(m, "model")), Get(m, "name")),
         JStr(ToStr(m)))

\* lines 96-97
FieldId(m) ==
    JsOr(JsOr(JsOr(Get(m, "id"), Get(m, "name")), Get(m, "model")),
         JStr(Stringify(m)))

\* Object.keys(j) of a non-nullish j that is no array
ObjectKeys(j) ==
    CASE j.t = "obj" -> [i \in 1..Len(j.fields) |-> JStr(<<j.fields[i].k>>)]
      [] j.t = "str" -> [i \in 1..Len(j.s) |-> JStr(<<ToString(i - 1)>>)]
      [] OTHER -> <<>>

\* a.slice(0, n)
Slice(a, n) == SubSeq(a, 1, IF Len(a) < n THEN Len(a) ELSE n)

FallbackModels == <<JStr(<<"gpt-4o-mini">>), JStr(<<"gpt-4o">>), JStr(<<"gpt-3.5-turbo">>)>>

\* lines 94-101: the list found, before the fallback
FindModels(j) ==
    IF IsArray(j)
    THEN IF \E i \in 1..Len(j.items) : Nullish(j.items[i])
         THEN Raise(TypeErrorMsg)
         ELSE Ok(JArr([i \in 1..Len(j.items) |-> ArrayId(j.items[i])]))
    ELSE IF Nullish(j) THEN Raise(TypeErrorMsg)
    ELSE IF IsArray(Get(j, "data"))
    THEN IF \E i \in 1..Len(Get(j, "data").items) : Nullish(Get(j, "data").items[i])
         THEN Raise(TypeErrorMsg)
         ELSE Ok(JArr([i \in 1..Len(Get(j, "data").items) |->
                         FieldId(Get(j, "data").items[i])]))
    ELSE IF IsArray(Get(j, "models"))
    THEN IF \E i \in 1..Len(Get(j, "models").items) : Nullish(Get(j, "models").items[i])
         THEN Raise(TypeErrorMsg)
         ELSE Ok(JArr([i \in 1..Len(Get(j, "models").items) |->
                         FieldId(Get(j, "models").items[i])]))
    ELSE Ok(JArr(Slice(ObjectKeys(j), MaxKeys)))

\* lines 103-107: [threw, val: the list, msg], and whether the fallback applied
UsesFallback(j) == ~FindModels(j).threw /\ FindModels(j).val.items = <<>>

NormalizeModels(j) ==
    IF UsesFallback(j) THEN Ok(JArr(FallbackModels)) ELSE FindModels(j)

\* The value attribute of `<option value="${m}">`: the HTML parser ends it at
\* the first double quote.
RECURSIVE AttrValue(_)
AttrValue(s) ==
    IF s = <<>> \/ Head(s) = "\"" THEN <<>> ELSE <<Head(s)>> \o AttrValue(Tail(s))

\* line 110: one option per model
Option(value, text) == [value |-> value, text |-> text]
ModelOptions(list) ==
    [i \in 1..Len(list) |-> Option(AttrValue(ToStr(list[i])), ToStr(list[i]))]

\* An <option> without a value attribute: its value is its text.
TextOption(text) == <<Option(text, text)>>
LoadingOption == TextOption(<<"Loading models...">>)
NoKeyOption == TextOption(<<"Provide API key (window.OPENAI_KEY or #apiKey)">>)
ErrorOption == TextOption(<<"Error loading models">>)

(***************************************************************************)
(* The rendering surface: the children of #messages, in document order.    *)
(* id is the number behind an element's id 'thinking-<n>' (NoId: none),    *)
(* html whether its content was assigned through innerHTML.  owner and     *)
(* role are history fields: the send that wrote the element's content and  *)
(* what the element shows.                                                 *)
(***************************************************************************)
NoId == -1
El(id, who, text, html, owner, role) ==
    [id |-> id, who |-> who, text |-> text, html |-> html,
     owner |-> owner, role |-> role]

\* appendMessage(text, who) (lines 36-48), rawHtml left at its default
AppendMessage(msgs, text, who, owner, role) ==
    Append(msgs, El(NoId, IF who = "user" THEN "user" ELSE "bot",
                    text, FALSE, owner, role))

\* document.getElementById('thinking-<id>'): the first match in document
\* order, 0 when there is none.
IndexById(msgs, id) ==
    IF \E i \in 1..Len(msgs) : msgs[i].id = id
    THEN CHOOSE i \in 1..Len(msgs) :
            msgs[i].id = id /\ \A k \in 1..(i - 1) : msgs[k].id # id
    ELSE 0

\* element.remove()
RemoveAt(msgs, i) == SubSeq(msgs, 1, i - 1) \o SubSeq(msgs, i + 1, Len(msgs))

ThinkingText == <<"Thinking...">>
MissingKeyAlert == <<"API key not found. Provide window.OPENAI_KEY in HTML or an input#apiKey.">>
NoKeyMessage == <<"No API key found. Provide window.OPENAI_KEY in HTML or an input#apiKey.">>
FallbackNotice == <<"No models found in response; using fallback list.">>
ModelsCorsHint == <<"If you see a CORS or network error, ensure the provider host allows browser requests from this origin.">>
ChatCorsHint == <<"Network/CORS error detected. Ensure http://116.72.105.227:1234 allows CORS from this origin and that the host is reachable.">>

(***************************************************************************)
(* What the transport can answer.                                          *)
(***************************************************************************)
Resp(kind, status, text, body) ==
    [kind |-> kind, status |-> status, text |-> text, body |-> body]
NoResp == Resp("none", 0, <<>>, Undefined)
\* fetch rejects with an error of this message
Rejected(msg) == Resp("exception", 0, msg, Undefined)
\* a response whose status is not 2xx, with this body text
Status(code, text) == Resp("status", code, text, Undefined)
\* a 2xx response whose body parses to this JSON value
Json(body) == Resp("ok", 200, <<>>, body)
\* a 2xx response whose body is no JSON
NotJson == Resp("badjson", 200, <<>>, Undefined)

Obj1(k, v) == JObj(<<KV(k, v)>>)
S(tok) == JStr(tok)

\* the texts a provider may put into a response
ReplyTexts ==
    { <<"Hi">>, <<"a", "\n", "b">>, <<>>,
      <<"<", "script", ">">>, <<"x", "<", "/", "SCRIPT", ">">>,
      <<"<", "Script", " ", "src=x", ">">>, <<"<", " ", "script">>,
      <<"<", "img onerror=alert(1)", ">">> }

\* the shapes of lines 176-189 around a value v, and shapes next to them
BodiesAround(v) ==
    { Obj1("choices", JArr(<<Obj1("message", Obj1("content", v))>>)),
      Obj1("choices", JArr(<<Obj1("text", v)>>)),
      Obj1("choices", JArr(<<Obj1("delta", Obj1("content", v))>>)),
      Obj1("choices", JArr(<<v>>)),
      Obj1("output", v),
      Obj1("output", JArr(<<Obj1("content", v), Obj1("k", JNum(1))>>)),
      Obj1("output", JArr(<<v>>)),
      Obj1("output", Obj1("k", v)),
      Obj1("result", v),
      Obj1("result", JArr(<<v>>)),
      Obj1("reply", v),
      JArr(<<v>>),
      v }

ChatBodies ==
    UNION { BodiesAround(S(t)) : t \in ReplyTexts }
    \cup BodiesAround(JNull) \cup BodiesAround(JNum(5)) \cup BodiesAround(JObj(<<>>))
    \cup { Obj1("choices", JArr(<<>>)), JArr(<<>>),
           JObj(<<KV("choices", S(<<"x">>)), KV("result", S(<<"ok">>))>>) }

ChatResponses ==
    { Rejected(<<"Failed to fetch">>), Rejected(<<"Load failed">>),
      Status(500, <<"Network", " ", "unreachable">>), Status(401, <<"denied">>),
      NotJson }
    \cup { Json(b) : b \in ChatBodies }

\* the answers drawn where several sends interleave: one of each way a call
\* can end
SessionChatResponses ==
    { Rejected(<<"Failed to fetch">>), Status(401, <<"denied">>), NotJson,
      Json(JNull), Json(Obj1("result", JNum(5))),
      Json(Obj1("result", S(<<"<", "img onerror=alert(1)", ">">>))),
      Json(Obj1("choices", JArr(<<Obj1("message", Obj1("content", S(<<"Hi">>)))>>))) }

\* the answers drawn where sends and refreshes interleave
CoreChatResponses ==
    { Rejected(<<"Failed to fetch">>),
      Json(Obj1("choices", JArr(<<Obj1("message", Obj1("content", S(<<"Hi">>)))>>))) }

ModelBodies ==
    { Obj1("data", JArr(<<Obj1("id", S(<<"m1">>)), Obj1("id", S(<<"m2">>))>>)),
      JArr(<<S(<<"a">>), S(<<"b">>)>>),
      Obj1("models", JArr(<<Obj1("name", S(<<"n1">>)), Obj1("k", JNum(1))>>)),
      Obj1("data", S(<<"x">>)),
      JObj(<<>>),
      JArr(<<JNull>>),
      JNull,
      JArr(<<JObj(<<KV("name", S(<<"n">>)), KV("model", S(<<"m">>))>>), JNum(5),
             Obj1("k", JNum(1))>>),
      Obj1("data", JArr(<<JObj(<<KV("name", S(<<"n">>)), KV("model", S(<<"m">>))>>),
                          JNum(5)>>)),
      JObj(<<KV("models", JArr(<<S(<<"b">>)>>)), KV("data", JArr(<<S(<<"a">>)>>))>>),
      Obj1("models", JArr(<<>>)),
      JObj([i \in 1..(MaxKeys + 1) |-> KV(ToString(i), JNum(i))]),
      S(<<"o", "k">>) }

ModelsResponses ==
    { Rejected(<<"Failed to fetch">>), Status(401, <<"denied">>), NotJson }
    \cup { Json(b) : b \in ModelBodies }

CoreModelsResponses ==
    { Rejected(<<"Failed to fetch">>),
      Json(JArr(<<S(<<"a">>), S(<<"b">>)>>)),
      Json(JNull) }

(***************************************************************************)
(* What the user can type.                                                 *)
(***************************************************************************)
PromptTexts == { <<" ">>, <<" ", "hi", " ">> }
WindowKeys == { Undefined, JStr(<<" ">>), JStr(<<" ", "k1">>) }
ApiKeyTexts == { <<>>, <<"k2", " ">> }
SystemPrompts == { <<>>, <<"sys">> }
Temperatures == { "0.7", "1" }
\* the value the temperature input holds when the page loads (the default of
\* line 134)
DefaultTemperature == "0.7"

(***************************************************************************)
(* State.                                                                  *)
(***************************************************************************)
VARIABLES
    windowKey,          \* window.OPENAI_KEY
    apiKeyValue,        \* input#apiKey .value
    promptValue,        \* textarea#prompt .value
    systemPromptValue,  \* input#systemPrompt .value
    tempValue,          \* input#temperature .value
    selectDisabled,     \* select#modelSelect .disabled
    options,            \* the <option>s of select#modelSelect
    selected,           \* index of its selected option
    messages,           \* the children of #messages
    alerts,             \* the alert() dialogs shown
    now,                \* Date.now()
    exchanges,          \* one record per sendChat call that reached its fetch
    refreshes           \* one record per fetchModels call

vars == <<windowKey, apiKeyValue, promptValue, systemPromptValue, tempValue,
          selectDisabled, options, selected, messages, alerts, now,
          exchanges, refreshes>>

inputs == <<windowKey, apiKeyValue, promptValue, systemPromptValue, tempValue>>
select == <<selectDisabled, options, selected>>

\* modelSelect.value
SelectValue == IF options = <<>> THEN <<>> ELSE options[selected].value

\* parseFloat of the values the temperature input takes, in tenths
ParseFloat(v) == CASE v = "0.7" -> 7 [] v = "1" -> 10 [] OTHER -> 0

\* every call issued, answered or not
Issued(rs) == { i \in 1..Len(rs) : rs[i].outcome \in {"Pending", "Succeeded", "Failed", "Done"} }

\* the calls awaiting their response
Pending(rs) == { i \in 1..Len(rs) : rs[i].outcome = "Pending" }

(***************************************************************************)
(* fetchModels (lines 64-119).                                             *)
(***************************************************************************)
\* One call: the key it read, where it stands, and, as history, the response
\* it got and the model list it set (undefined while it has set none).
Refresh(key, outcome, resp) ==
    [key |-> key, outcome |-> outcome, resp |-> resp, models |-> Undefined]

\* lines 65-83, up to the await: what the call leaves behind
\* [disabled, options, messages, refresh]
FetchModelsBegin(wk, ak, msgs) ==
    LET key == GetApiKey(wk, ak) IN
    IF ~Truthy(key)
    THEN [disabled |-> FALSE, options |-> NoKeyOption,
          messages |-> AppendMessage(msgs, NoKeyMessage, "bot", 0, "notice"),
          refresh |-> Refresh(key, "NoKey", NoResp)]
    ELSE [disabled |-> TRUE, options |-> LoadingOption, messages |-> msgs,
          refresh |-> Refresh(key, "Pending", NoResp)]

\* the refresh button's click listener (line 235)
FetchModels ==
    /\ Len(refreshes) < MaxRefresh
    /\ LET b == FetchModelsBegin(windowKey, apiKeyValue, messages) IN
        /\ selectDisabled' = b.disabled
        /\ options' = b.options
        /\ selected' = 1
        /\ messages' = b.messages
        /\ refreshes' = Append(refreshes, b.refresh)
    /\ UNCHANGED <<inputs, alerts, now, exchanges>>

\* lines 85-90: the error the response raises before normalisation, if any
ModelsError(r) ==
    CASE r.kind = "exception" -> Raise(r.text)
      [] r.kind = "status" ->
            Raise(<<"Models fetch failed: ", ToString(r.status), " ">> \o r.text)
      [] r.kind = "badjson" -> Raise(SyntaxErrorMsg)
      [] OTHER -> Ok(r.body)

\* lines 85-107: the model list, or the error raised
ModelsResult(r) ==
    IF ModelsError(r).threw THEN ModelsError(r) ELSE NormalizeModels(r.body)

\* lines 111-115
ModelsCatch(msgs, msg) ==
    AppendMessage(
        AppendMessage(msgs, <<"Error fetching models: ">> \o msg, "bot", 0, "error"),
        ModelsCorsHint, "bot", 0, "hint")

\* the continuation after the await of line 77
ModelsResponse(i, r) ==
    /\ i \in Pending(refreshes)
    /\ LET res == ModelsResult(r) IN
        IF res.threw
        THEN /\ options' = ErrorOption
             /\ messages' = ModelsCatch(messages, res.msg)
             /\ refreshes' = [refreshes EXCEPT ![i].outcome = "Failed", ![i].resp = r]
        ELSE /\ options' = ModelOptions(res.val.items)
             /\ messages' = IF UsesFallback(r.body)
                            THEN AppendMessage(messages, FallbackNotice, "bot", 0, "notice")
                            ELSE messages
             /\ refreshes' = [refreshes EXCEPT ![i].outcome = "Done", ![i].resp = r,
                                                ![i].models = res.val]
    /\ selected' = 1
    /\ selectDisabled' = FALSE
    /\ UNCHANGED <<inputs, alerts, now, exchanges>>

(***************************************************************************)
(* sendChat (lines 121-221).                                               *)
(***************************************************************************)
Msg(role, content) == [role |-> role, content |-> content]

\* lines 150-157
\* the payload below with the user messages of the earlier calls replayed
PayloadReplaysLog(model, systemPrompt, userText, temperature) ==
    [model |-> model,
     messages |-> (IF systemPrompt # <<>> THEN <<Msg("system", systemPrompt)>> ELSE <<>>)
                  \o [i \in 1..Len(exchanges) |->
                         exchanges[i].payload.messages[Len(exchanges[i].payload.messages)]]
                  \o <<Msg("user", userText)>>,
     temperature |-> temperature]

\* lines 150-157
Payload(model, systemPrompt, userText, temperature) ==
    [model |-> model,
     messages |-> (IF systemPrompt # <<>> THEN <<Msg("system", systemPrompt)>> ELSE <<>>)
                  \o <<Msg("user", userText)>>,
     temperature |-> temperature]

\* One call: its placeholder id, the Authorization header and the body of
\* its request, where it stands, and, as history, how many children
\* #messages had when fetch was called, the response it got and the text
\* extracted from it.
Exchange(id, key, payload, shown) ==
    [id |-> id, key |-> key, payload |-> payload, shown |-> shown,
     outcome |-> "Pending", resp |-> NoResp, text |-> Undefined]

\* the guard below with an error flag that is never cleared
SendChatAcceptsLatched ==
    /\ Trim(promptValue) # <<>>
    /\ Truthy(GetApiKey(windowKey, apiKeyValue))
    /\ \A i \in 1..Len(exchanges) : exchanges[i].outcome # "Failed"

\* lines 126-132: the call gets past both early returns
SendChatAccepts ==
    /\ Trim(promptValue) # <<>>
    /\ Truthy(GetApiKey(windowKey, apiKeyValue))

\* line 127: the call returns at once
SendChatEmpty ==
    /\ Trim(promptValue) = <<>>
    /\ UNCHANGED vars

\* lines 128-132 with the user bubble of line 138 shown before the key check
SendChatNoKeyShowsFirst ==
    /\ Trim(promptValue) # <<>>
    /\ ~Truthy(GetApiKey(windowKey, apiKeyValue))
    /\ Len(alerts) < MaxAlerts
    /\ alerts' = Append(alerts, MissingKeyAlert)
    /\ messages' = AppendMessage(messages, Trim(promptValue), "user", 0, "user")
    /\ UNCHANGED <<inputs, select, now, exchanges, refreshes>>

\* lines 128-132
SendChatNoKey ==
    /\ Trim(promptValue) # <<>>
    /\ ~Truthy(GetApiKey(windowKey, apiKeyValue))
    /\ Len(alerts) < MaxAlerts
    /\ alerts' = Append(alerts, MissingKeyAlert)
    /\ UNCHANGED <<inputs, select, messages, now, exchanges, refreshes>>

\* the two appends below in the other order
SendChatShowPlaceholderFirst(msgs, userText, id, owner) ==
    AppendMessage(Append(msgs, El(id, "bot", ThinkingText, FALSE, owner, "placeholder")),
                  userText, "user", owner, "user")

\* lines 138-147: the user bubble, then the placeholder
SendChatShow(msgs, userText, id, owner) ==
    Append(AppendMessage(msgs, userText, "user", owner, "user"),
           El(id, "bot", ThinkingText, FALSE, owner, "placeholder"))

\* lines 133-167, up to the await
SendChatIssue ==
    /\ SendChatAccepts
    /\ Len(exchanges) < MaxSends
    /\ LET shown == SendChatShow(messages, Trim(promptValue), now, Len(exchanges) + 1)
       IN  /\ messages' = shown
           /\ exchanges' = Append(exchanges,
                  Exchange(now, GetApiKey(windowKey, apiKeyValue),
                           Payload(SelectValue, systemPromptValue,
                                   Trim(promptValue), ParseFloat(tempValue)),
                           Len(shown)))
    /\ promptValue' = <<>>
    /\ UNCHANGED <<windowKey, apiKeyValue, systemPromptValue, tempValue,
                   select, alerts, now, refreshes>>

\* the click listener of the send button (line 234)
SendChat == SendChatEmpty \/ SendChatNoKey \/ SendChatIssue

\* lines 169-174: the error the response raises before extraction, if any
ChatError(r) ==
    CASE r.kind = "exception" -> Raise(r.text)
      [] r.kind = "status" ->
            Raise(<<"Chat failed: ", ToString(r.status), " ">> \o r.text)
      [] r.kind = "badjson" -> Raise(SyntaxErrorMsg)
      [] OTHER -> Ok(r.body)

\* lines 169-189: the assistant text, or the error raised
ChatResult(r) ==
    IF ChatError(r).threw THEN ChatError(r) ELSE ExtractText(r.body)

\* lines 192-193
RemoveThinking(msgs, id) ==
    IF IndexById(msgs, id) # 0 THEN RemoveAt(msgs, IndexById(msgs, id)) ELSE msgs

\* line 197 with /<\/?script/, the i flag dropped
ShownAsTextCaseSensitive(text) ==
    /\ Truthy(text)
    /\ \E i \in 1..Len(ToStr(text)) :
          /\ ToStr(text)[i] = "<"
          /\ \/ i + 1 <= Len(ToStr(text)) /\ ToStr(text)[i + 1] = "script"
             \/ /\ i + 2 <= Len(ToStr(text))
                /\ ToStr(text)[i + 1] = "/"
                /\ ToStr(text)[i + 2] = "script"

\* line 197
ShownAsText(text) == Truthy(text) /\ HasScriptTag(ToStr(text))

\* line 202: (assistantText || '').replace is no function unless the value
\* is a string
ReplaceRaises(text) == Truthy(text) /\ text.t # "str"

\* lines 197-208, on the surface left by line 193: [threw, val: messages, msg]
ShowReply(msgs, text, owner) ==
    IF ShownAsText(text)
    THEN [threw |-> FALSE, msg |-> <<>>,
          val |-> AppendMessage(msgs, ToStr(text), "bot", owner, "reply")]
    ELSE IF ReplaceRaises(text)
    THEN [threw |-> TRUE, msg |-> TypeErrorMsg, val |-> msgs]
    ELSE [threw |-> FALSE, msg |-> <<>>,
          val |-> Append(msgs, El(NoId, "bot",
                                  NlToBr(IF Truthy(text) THEN text.s ELSE <<>>),
                                  TRUE, owner, "reply"))]

\* lines 209-220
ChatCatch(msgs, id, msg, owner) ==
    LET t == IndexById(msgs, id)
        shown == IF t # 0
                 THEN [msgs EXCEPT ![t].text = <<"Error: ">> \o msg,
                                   ![t].role = "error", ![t].owner = owner]
                 ELSE AppendMessage(msgs, <<"Error: ">> \o msg, "bot", owner, "error")
    IN IF HasNetMarker(msg)
       THEN AppendMessage(shown, ChatCorsHint, "bot", owner, "hint")
       ELSE shown

\* the continuation after the await of line 159
ChatResponse(i, r) ==
    /\ i \in Pending(exchanges)
    /\ LET e == exchanges[i]
           res == ChatResult(r)
           shown == ShowReply(RemoveThinking(messages, e.id), res.val, i)
       IN
        IF res.threw
        THEN /\ messages' = ChatCatch(messages, e.id, res.msg, i)
             /\ exchanges' = [exchanges EXCEPT ![i].outcome = "Failed", ![i].resp = r]
        ELSE IF shown.threw
        THEN /\ messages' = ChatCatch(shown.val, e.id, shown.msg, i)
             /\ exchanges' = [exchanges EXCEPT ![i].outcome = "Failed",
                                                ![i].resp = r, ![i].text = res.val]
        ELSE /\ messages' = shown.val
             /\ exchanges' = [exchanges EXCEPT ![i].outcome = "Succeeded",
                                                ![i].resp = r, ![i].text = res.val]
    /\ UNCHANGED <<inputs, select, alerts, now, refreshes>>

(***************************************************************************)
(* The user and the clock.  Input typed after the last send the bounds     *)
(* allow is not modelled.                                                  *)
(***************************************************************************)
TypePrompt(s) ==
    /\ Len(exchanges) < MaxSends
    /\ promptValue # s
    /\ promptValue' = s
    /\ UNCHANGED <<windowKey, apiKeyValue, systemPromptValue, tempValue,
                   select, messages, alerts, now, exchanges, refreshes>>

TypeApiKey(s) ==
    /\ Len(exchanges) < MaxSends
    /\ apiKeyValue # s
    /\ apiKeyValue' = s
    /\ UNCHANGED <<windowKey, promptValue, systemPromptValue, tempValue,
                   select, messages, alerts, now, exchanges, refreshes>>

TypeSystemPrompt(s) ==
    /\ Len(exchanges) < MaxSends
    /\ systemPromptValue # s
    /\ systemPromptValue' = s
    /\ UNCHANGED <<windowKey, apiKeyValue, promptValue, tempValue,
                   select, messages, alerts, now, exchanges, refreshes>>

\* the user picks another option; a disabled <select> takes no input
SelectModel(i) ==
    /\ Len(exchanges) < MaxSends
    /\ ~selectDisabled
    /\ i \in 1..Len(options)
    /\ i # selected
    /\ selected' = i
    /\ UNCHANGED <<inputs, selectDisabled, options, messages, alerts, now,
                   exchanges, refreshes>>

\* a millisecond passes
Tick ==
    /\ Len(exchanges) < MaxSends
    /\ now < MaxClock
    /\ now' = now + 1
    /\ UNCHANGED <<inputs, select, messages, alerts, exchanges, refreshes>>

(***************************************************************************)
(* The page after the script has run: init (lines 238-244) has called      *)
(* fetchModels, which ran up to its await.                                 *)
(***************************************************************************)
Init ==
    /\ windowKey \in WindowKeys
    /\ apiKeyValue = <<>>
    /\ promptValue = <<>>
    /\ systemPromptValue = <<>>
    /\ tempValue = DefaultTemperature
    /\ LET b == FetchModelsBegin(windowKey, <<>>, <<>>) IN
        /\ selectDisabled = b.disabled
        /\ options = b.options
        /\ selected = 1
        /\ messages = b.messages
        /\ refreshes = <<b.refresh>>
    /\ alerts = <<>>
    /\ now = 0
    /\ exchanges = <<>>

Next ==
    \/ FetchModels
    \/ \E i \in 1..Len(refreshes) : \E r \in CoreModelsResponses : ModelsResponse(i, r)
    \/ SendChat
    \/ \E i \in 1..Len(exchanges) : \E r \in CoreChatResponses : ChatResponse(i, r)
    \/ \E s \in PromptTexts : TypePrompt(s)
    \/ \E s \in ApiKeyTexts : TypeApiKey(s)
    \/ \E s \in SystemPrompts : TypeSystemPrompt(s)
    \/ \E i \in 1..Len(options) : SelectModel(i)
    \/ Tick

Spec == Init /\ [][Next]_vars

(***************************************************************************)
(* The conversation alone: the user types and sends, the provider answers  *)
(* each call in one of the ways a call can end, and nobody touches the     *)
(* model list.                                                             *)
(***************************************************************************)
NextChat ==
    \/ SendChat
    \/ \E i \in 1..Len(exchanges) : \E r \in SessionChatResponses : ChatResponse(i, r)
    \/ \E s \in PromptTexts : TypePrompt(s)
    \/ \E s \in ApiKeyTexts : TypeApiKey(s)
    \/ Tick

SpecChat == Init /\ [][NextChat]_vars

(***************************************************************************)
(* One send and its answer, for every answer of ChatResponses: the page    *)
(* with the inputs filled in, the send, the response.                      *)
(***************************************************************************)
InitReply ==
    /\ windowKey \in WindowKeys
    /\ apiKeyValue \in ApiKeyTexts
    /\ promptValue \in PromptTexts
    /\ systemPromptValue \in SystemPrompts
    /\ tempValue \in Temperatures
    /\ LET b == FetchModelsBegin(windowKey, <<>>, <<>>) IN
        /\ selectDisabled = b.disabled
        /\ options = b.options
        /\ selected = 1
        /\ messages = b.messages
        /\ refreshes = <<b.refresh>>
    /\ alerts = <<>>
    /\ now = 0
    /\ exchanges = <<>>

NextReply ==
    \/ SendChat
    \/ \E i \in 1..Len(exchanges) : \E r \in ChatResponses : ChatResponse(i, r)

SpecReply == InitReply /\ [][NextReply]_vars

(***************************************************************************)
(* The conversation over a transport that answers: fetch settles, with a   *)
(* response or an error, for every call issued.                            *)
(***************************************************************************)
NextChatFair ==
    \/ SendChat
    \/ \E i \in 1..Len(exchanges) : \E r \in SessionChatResponses : ChatResponse(i, r)
    \/ \E s \in PromptTexts : TypePrompt(s)
    \/ Tick

SpecChatFair ==
    /\ Init
    /\ [][NextChatFair]_vars
    /\ \A i \in 1..MaxSends :
          WF_vars(\E r \in SessionChatResponses : ChatResponse(i, r))

(***************************************************************************)
(* The request bodies of a conversation: the user rewrites the prompt and  *)
(* the system prompt between sends.                                        *)
(***************************************************************************)
PayloadPrompts == PromptTexts \cup { <<"yo", "\n">> }
PayloadSystemPrompts == SystemPrompts \cup { <<" ">> }

NextPayload ==
    \/ SendChat
    \/ \E i \in 1..Len(exchanges) : \E r \in CoreChatResponses : ChatResponse(i, r)
    \/ \E s \in PayloadPrompts : TypePrompt(s)
    \/ \E s \in PayloadSystemPrompts : TypeSystemPrompt(s)

SpecPayload == Init /\ [][NextPayload]_vars

(***************************************************************************)
(* The credential of every call: the page with the inputs filled in, the   *)
(* key input rewritten between calls, refreshes and sends.                 *)
(***************************************************************************)
CredentialTexts == ApiKeyTexts \cup { <<" ">> }

NextCredential ==
    \/ FetchModels
    \/ \E i \in 1..Len(refreshes) : \E r \in CoreModelsResponses : ModelsResponse(i, r)
    \/ SendChat
    \/ \E i \in 1..Len(exchanges) : \E r \in CoreChatResponses : ChatResponse(i, r)
    \/ \E s \in CredentialTexts : TypeApiKey(s)

SpecCredential == InitReply /\ [][NextCredential]_vars

(***************************************************************************)
(* The model list alone: the page is loaded, refresh is clicked, and the   *)
(* provider answers each models call with any answer of ModelsResponses.   *)
(***************************************************************************)
NextCatalog ==
    \/ FetchModels
    \/ \E i \in 1..Len(refreshes) : \E r \in ModelsResponses : ModelsResponse(i, r)
    \/ \E s \in ApiKeyTexts : TypeApiKey(s)

SpecCatalog == Init /\ [][NextCatalog]_vars

(***************************************************************************)
(* Properties.                                                             *)
(***************************************************************************)
KeyResolves == Truthy(GetApiKey(windowKey, apiKeyValue))
InputGiven == Trim(promptValue) # <<>>

\* C1: single-flight.  At most one Exchange is Pending in every reachable
\* state: a send issued while an earlier call has not returned creates no
\* second Pending Exchange and no second concurrent chat call.
C1_SingleFlight == Cardinality(Pending(exchanges)) <= 1

\* C2: a send made with input typed but no credential resolving raises the
\* missing-key alert and changes nothing else: no Exchange is created (no
\* chat call is made), and neither a user message nor a placeholder is
\* appended to the surface.
C2_NoKeySendOnlyAlerts ==
    [][(SendChat /\ InputGiven /\ ~KeyResolves)
        => /\ alerts' = Append(alerts, MissingKeyAlert)
           /\ UNCHANGED <<exchanges, messages, inputs, select, now, refreshes>>]_vars

C2_Witness ==
    /\ alerts # <<>>
    /\ InputGiven /\ ~KeyResolves
    /\ exchanges = <<>>

\* C3: a response with a success status ends its Exchange Succeeded, never
\* Failed, whatever its JSON body.
C3_SuccessStatusSucceeds ==
    \A i \in 1..Len(exchanges) :
        exchanges[i].resp.kind = "ok" => exchanges[i].outcome = "Succeeded"

\* C4: no error is sticky.  After an Exchange has ended Failed, or a send
\* was refused for a missing credential, a send whose preconditions hold
\* (input typed, credential resolving) is accepted: it adds one fresh
\* Pending Exchange and leaves the earlier ones as they are.
C4_ErrorsEndOnlyTheirExchange ==
    ( /\ \/ \E i \in 1..Len(exchanges) : exchanges[i].outcome = "Failed"
         \/ alerts # <<>>
      /\ InputGiven /\ KeyResolves
      /\ Len(exchanges) < MaxSends )
    => ENABLED ( /\ SendChat
                 /\ Len(exchanges') = Len(exchanges) + 1
                 /\ SubSeq(exchanges', 1, Len(exchanges)) = exchanges
                 /\ exchanges'[Len(exchanges')].outcome = "Pending" )

C4_Witness ==
    /\ \E i \in 1..Len(exchanges) : exchanges[i].outcome = "Failed"
    /\ Pending(exchanges) = {}
    /\ InputGiven /\ KeyResolves
    /\ Len(exchanges) < MaxSends

\* C5: extraction of the response text is total: for every JSON body of a
\* success response it yields a value and does not raise.
C5_ExtractionNeverRaises ==
    \A i \in 1..Len(exchanges) :
        exchanges[i].resp.kind = "ok" => exchanges[i].text # Undefined

\* C6: for every JSON body of a successful models call the refresh does not
\* take its error path and sets a non-empty model list.
C6_CatalogNeverFails ==
    \A i \in 1..Len(refreshes) :
        refreshes[i].resp.kind = "ok"
        => /\ refreshes[i].outcome = "Done"
           /\ IsArray(refreshes[i].models)
           /\ refreshes[i].models.items # <<>>

\* C7: whenever the text extracted from a success response contains
\* `<script` or `</script` in any letter case, the Exchange succeeds and its
\* reply is on the surface as plain text; no element whose content was
\* parsed as markup contains such a tag.
C7_ScriptShownAsText ==
    /\ \A i \in 1..Len(exchanges) :
          (exchanges[i].resp.kind = "ok" /\ HasScriptTag(ToStr(exchanges[i].text)))
          => /\ exchanges[i].outcome = "Succeeded"
             /\ \E k \in 1..Len(messages) :
                   /\ messages[k].owner = i /\ messages[k].role = "reply"
                   /\ ~messages[k].html
                   /\ messages[k].text = ToStr(exchanges[i].text)
             /\ \A k \in 1..Len(messages) :
                   (messages[k].owner = i /\ messages[k].role = "reply")
                   => ~messages[k].html
    /\ \A k \in 1..Len(messages) :
          messages[k].html => ~HasScriptTag(messages[k].text)

C7_Witness ==
    \E i \in 1..Len(exchanges) :
        /\ exchanges[i].outcome = "Succeeded"
        /\ exchanges[i].text.t = "str"
        /\ \E k \in 1..Len(exchanges[i].text.s) : exchanges[i].text.s[k] = "SCRIPT"
        /\ HasScriptTag(exchanges[i].text.s)

C9_PlaceholdersDistinct ==
    /\ \A a, b \in 1..Len(messages) :
          (a # b /\ messages[a].id # NoId /\ messages[b].id # NoId)
          => messages[a].id # messages[b].id
    /\ \A i \in Pending(exchanges) :
          \E k \in 1..Len(messages) :
              messages[k].owner = i /\ messages[k].role = "placeholder"

\* C10: at most one model-catalog refresh is in flight at any time.
C10_RefreshNonOverlapping == Cardinality(Pending(refreshes)) <= 1

\* C11: the request of every accepted send holds one system message first
\* exactly when the system prompt read by this send is non-empty, then
\* exactly one user message with the trimmed input of this send, and
\* nothing else: no second system message and no message of an earlier
\* Exchange.
C11_RequestIsStateless ==
    [][Len(exchanges') = Len(exchanges) + 1 =>
         LET sent == exchanges'[Len(exchanges')].payload.messages
             user == [role |-> "user", content |-> Trim(promptValue)]
             system == [role |-> "system", content |-> systemPromptValue]
         IN  /\ systemPromptValue # <<>> => sent = <<system, user>>
             /\ systemPromptValue = <<>> => sent = <<user>>]_vars

\* the second request of a conversation carries a system message and the
\* second input only, the first carried a different input and no system
\* message
C11_Witness ==
    /\ Len(exchanges) = 2
    /\ Len(exchanges[1].payload.messages) = 1
    /\ Len(exchanges[2].payload.messages) = 2
    /\ exchanges[2].payload.messages[1].role = "system"
    /\ exchanges[2].payload.messages[2].content
          # exchanges[1].payload.messages[1].content
    /\ exchanges[1].outcome # "Pending"

\* C12: an Exchange whose call raised or returned a non-success status is
\* Failed, its own placeholder has been replaced with the error text (for a
\* non-success status the status code followed by the raw body text), and
\* the network/CORS hint has been emitted for it exactly when the error text
\* holds CORS, Network or Failed to fetch in any letter case.
C12_FailureReplacesPlaceholder ==
    \A i \in 1..Len(exchanges) :
        LET r == exchanges[i].resp
            errorText == IF r.kind = "status"
                         THEN <<"Chat failed: ", ToString(r.status), " ">> \o r.text
                         ELSE r.text
            marked == \E k \in 1..Len(errorText) :
                          LowerTok(errorText[k]) \in {"cors", "network", "failed to fetch"}
            shows(role) == { k \in 1..Len(messages) :
                                messages[k].owner = i /\ messages[k].role = role }
        IN  r.kind \in {"exception", "status"} =>
              /\ exchanges[i].outcome = "Failed"
              /\ shows("placeholder") = {}
              /\ \E k \in shows("error") :
                     /\ messages[k].id = exchanges[i].id
                     /\ messages[k].text = <<"Error: ">> \o errorText
              /\ marked <=> shows("hint") # {}

\* C13: the credential is the first of the process-wide key and the UI key,
\* in this order, whose trimmed value is non-empty, trimmed, and none when
\* both are absent or blank; the Authorization header of every models call
\* and of every chat call is exactly that value, with no scheme prefix, and
\* no call is issued when there is none.
C13_AuthorizationIsResolvedKey ==
    [][LET candidates == <<IF windowKey.t = "str" THEN windowKey.s ELSE <<>>,
                           apiKeyValue>>
           usable == { k \in 1..2 : Trim(candidates[k]) # <<>> }
           first == CHOOSE k \in usable : \A j \in usable : k <= j
           header == [t |-> "str", s |-> Trim(candidates[first])]
           sameString(v) == v.t = header.t /\ v.s = header.s
       IN  /\ Len(exchanges') = Len(exchanges) + 1 =>
                 usable # {} /\ sameString(exchanges'[Len(exchanges')].key)
           /\ Len(refreshes') = Len(refreshes) + 1 =>
                 IF usable = {}
                 THEN refreshes'[Len(refreshes')].outcome = "NoKey"
                 ELSE /\ refreshes'[Len(refreshes')].outcome = "Pending"
                      /\ sameString(refreshes'[Len(refreshes')].key)]_vars

\* the process-wide key is blank and is passed over: a chat call and a
\* models call both carry the trimmed UI key, and an earlier refresh found
\* no key at all
C13_Witness ==
    /\ windowKey = JStr(<<" ">>)
    /\ Len(exchanges) >= 1
    /\ exchanges[1].key = JStr(<<"k2">>)
    /\ Len(refreshes) >= 2
    /\ refreshes[1].outcome = "NoKey"
    /\ refreshes[2].key = JStr(<<"k2">>)

\* C14: a refresh whose call returned a JSON value sets the catalog found by
\* the first shape that matches: the value itself a sequence (each element
\* its id, else model, else name, else its string form); else its field
\* data a sequence (id, else name, else model, else the JSON string form);
\* else its field models a sequence (the same); else up to the first 20
\* keys of the value.  When that is empty the catalog is gpt-4o-mini,
\* gpt-4o, gpt-3.5-turbo, a notice is shown, and the refresh completes all
\* the same.
C14_CatalogShapeSelection ==
    \A i \in 1..Len(refreshes) :
        LET j == refreshes[i].resp.body
            field(v, k) == IF v.t = "obj" /\ \E n \in 1..Len(v.fields) : v.fields[n].k = k
                           THEN v.fields[CHOOSE n \in 1..Len(v.fields) : v.fields[n].k = k].v
                           ELSE Undefined
            orElse(a, b) == IF Truthy(a) THEN a ELSE b
            ofArray(m) == orElse(field(m, "id"), orElse(field(m, "model"),
                              orElse(field(m, "name"), JStr(ToStr(m)))))
            ofField(m) == orElse(field(m, "id"), orElse(field(m, "name"),
                              orElse(field(m, "model"), JStr(Stringify(m)))))
            keys == IF j.t = "obj" THEN [n \in 1..Len(j.fields) |-> JStr(<<j.fields[n].k>>)]
                    ELSE IF j.t = "str" THEN [n \in 1..Len(j.s) |-> JStr(<<ToString(n - 1)>>)]
                    ELSE <<>>
            found == IF j.t = "arr" THEN [n \in 1..Len(j.items) |-> ofArray(j.items[n])]
                     ELSE IF field(j, "data").t = "arr"
                     THEN [n \in 1..Len(field(j, "data").items) |->
                             ofField(field(j, "data").items[n])]
                     ELSE IF field(j, "models").t = "arr"
                     THEN [n \in 1..Len(field(j, "models").items) |->
                             ofField(field(j, "models").items[n])]
                     ELSE [n \in 1..(IF Len(keys) < 20 THEN Len(keys) ELSE 20) |-> keys[n]]
            fixed == <<JStr(<<"gpt-4o-mini">>), JStr(<<"gpt-4o">>), JStr(<<"gpt-3.5-turbo">>)>>
        IN  refreshes[i].resp.kind = "ok" =>
              /\ refreshes[i].outcome = "Done"
              /\ refreshes[i].models.t = "arr"
              /\ refreshes[i].models.items = IF found = <<>> THEN fixed ELSE found
              /\ found = <<>> =>
                    \E k \in 1..Len(messages) :
                        messages[k].role = "notice" /\ messages[k].text = FallbackNotice

\* C15: the text extracted from a JSON response is found by the first
\* shape that matches: choices a non-empty sequence (of its element 0
\* message.content, else text, else delta.content, else none); else output
\* (a string as it is, a sequence mapped to each element's content, else
\* its JSON string form, and joined with newlines); else result as it is;
\* else the pretty-printed JSON string form of the whole value.
C15_ExtractionShapeSelection ==
    \A i \in 1..Len(exchanges) :
        LET j == exchanges[i].resp.body
            field(v, k) == IF v.t = "obj" /\ \E n \in 1..Len(v.fields) : v.fields[n].k = k
                           THEN v.fields[CHOOSE n \in 1..Len(v.fields) : v.fields[n].k = k].v
                           ELSE Undefined
            orElse(a, b) == IF Truthy(a) THEN a ELSE b
            choices == field(j, "choices")
            output == field(j, "output")
            result == field(j, "result")
            c == choices.items[1]
            ofElement(x) == ToStr(orElse(field(x, "content"), JStr(Stringify(x))))
            text == exchanges[i].text
        IN  exchanges[i].resp.kind = "ok" =>
              IF choices.t = "arr" /\ choices.items # <<>>
              THEN text = orElse(field(field(c, "message"), "content"),
                            orElse(field(c, "text"),
                              orElse(field(field(c, "delta"), "content"), JNull)))
              ELSE IF Truthy(output)
              THEN /\ output.t = "str" => text = output
                   /\ output.t = "arr" =>
                         text = JStr(Join([n \in 1..Len(output.items) |->
                                             ofElement(output.items[n])], <<"\n">>))
              ELSE IF Truthy(result) THEN text = result
              ELSE text = JStr(Pretty(j, 0))

\* C16: an Exchange becomes Pending only by a send whose trimmed input is
\* non-empty while a credential resolves; that send appends the user
\* message, then the placeholder, and only then issues the call, which
\* finds both on the surface.  A send with empty or whitespace-only input
\* emits nothing, issues no call and changes nothing.
C16_SendOrder ==
    [][/\ Len(exchanges') = Len(exchanges) + 1 =>
            LET n == Len(messages)
                e == exchanges'[Len(exchanges')]
            IN  /\ Trim(promptValue) # <<>>
                /\ \/ windowKey.t = "str" /\ Trim(windowKey.s) # <<>>
                   \/ Trim(apiKeyValue) # <<>>
                /\ Len(messages') = n + 2
                /\ SubSeq(messages', 1, n) = messages
                /\ messages'[n + 1].who = "user"
                /\ messages'[n + 1].text = Trim(promptValue)
                /\ messages'[n + 2].who = "bot"
                /\ messages'[n + 2].text = ThinkingText
                /\ messages'[n + 2].id = e.id
                /\ e.shown = n + 2
                /\ e.outcome = "Pending"
       /\ (SendChat /\ Trim(promptValue) = <<>>) => UNCHANGED vars]_vars

\* a call is pending with its user message and its placeholder last on the
\* surface, in this order, and the prompt now holds white space only
C16_Witness ==
    /\ Len(exchanges) = 1
    /\ exchanges[1].outcome = "Pending"
    /\ Len(messages) >= 2
    /\ messages[Len(messages) - 1].role = "user"
    /\ messages[Len(messages)].role = "placeholder"
    /\ promptValue = <<" ">>

\* C17: every Exchange starts Pending and, the transport answering every
\* call, eventually is Succeeded or Failed; it is one of the two, and once
\* it is, its outcome never changes.
C17_ExchangeCompletesOnce ==
    /\ \A i \in 1..MaxSends :
          (Len(exchanges) >= i /\ exchanges[i].outcome = "Pending")
            ~> (Len(exchanges) >= i /\ exchanges[i].outcome \in {"Succeeded", "Failed"})
    /\ [][/\ Len(exchanges') >= Len(exchanges)
          /\ \A i \in 1..Len(exchanges') :
                IF i > Len(exchanges)
                THEN exchanges'[i].outcome = "Pending"
                ELSE /\ exchanges[i].outcome # "Pending" =>
                           exchanges'[i].outcome = exchanges[i].outcome
                     /\ exchanges'[i].outcome
                           \in {exchanges[i].outcome, "Succeeded", "Failed"}]_vars

\* two calls were pending together; one has succeeded and the other failed
C17_Witness ==
    /\ Len(exchanges) = 2
    /\ exchanges[1].outcome = "Failed"
    /\ exchanges[2].outcome = "Succeeded"
    /\ exchanges[2].shown = exchanges[1].shown + 2

\* C18: once every issued Exchange has completed, no placeholder showing
\* the pending text is left on the surface, and each Exchange's outcome,
\* its final text or its error text, is on the surface exactly once.
C18_SurfaceSettles ==
    (exchanges # <<>> /\ \A i \in 1..Len(exchanges) : exchanges[i].outcome # "Pending") =>
        /\ \A k \in 1..Len(messages) :
              ~(messages[k].role = "placeholder" /\ messages[k].text = ThinkingText)
        /\ \A i \in 1..Len(exchanges) :
              Cardinality({ k \in 1..Len(messages) :
                              /\ messages[k].owner = i
                              /\ messages[k].role =
                                    IF exchanges[i].outcome = "Succeeded"
                                    THEN "reply" ELSE "error" }) = 1

\* C19: the model named in every chat request is an identifier of a catalog
\* set by a completed refresh, the list found or the fallback list; it is
\* never the text of the option shown while a refresh is loading, after a
\* refresh failed or after a refresh found no credential.
C19_ModelIsCatalogIdentifier ==
    \A i \in 1..Len(exchanges) :
        LET model == exchanges[i].payload.model IN
        /\ model \notin { LoadingOption[1].text, NoKeyOption[1].text, ErrorOption[1].text }
        /\ \E k \in 1..Len(refreshes) :
              /\ refreshes[k].outcome = "Done"
              /\ \E n \in 1..Len(refreshes[k].models.items) :
                    model = ToStr(refreshes[k].models.items[n])

====
